---------------------------- MODULE Spec2Model ----------------------------
(***************************************************************************)
(* FishingTracker core: the weather cache (core/waves.py), the GPS tracker *)
(* (core/gps_utils.py), the compass conversion, the SQLite store           *)
(* (core/db.py) and the screens that use them (ui/screens), as state       *)
(* machines.                                                               *)
(*                                                                         *)
(* Conventions                                                             *)
(*   - A Python value that may be None is a sequence of length at most 1:  *)
(*     None is <<>>, the value v is <<v>>.  An attribute that was never    *)
(*     assigned is modelled the same way (Missing).                        *)
(*   - A bearing is an integer number of 1/Scale degrees, so that the      *)
(*     ties of round() (22.5, 67.5, ...) are representable.                *)
(*   - Wall-clock time is in seconds, on a grid of Step seconds; the UTC   *)
(*     clock of the store is in units of 0.01 h.                           *)
(*   - Each component has its own specification (SpecWeather, SpecCompass, *)
(*     SpecGps, SpecRace, SpecDb, SpecUi); the variables of the other      *)
(*     components stay at their initial values.                            *)
(***************************************************************************)
EXTENDS Integers, Sequences, FiniteSets, TLC

VARIABLES
    \* ---- core/waves.py: the Weather object ------------------------------
    data,          \* Weather.data: Missing or <<dict>>
    time_utc,      \* Weather.time_utc: Missing or <<timestamp>>
    _last_fetch,   \* Weather._last_fetch
    _db_hook,      \* Weather._db_hook: None or <<hook>>
    _on_refresh,   \* Weather._on_refresh: Missing or <<hook>>
    now,           \* time.time()
    nextPoll,      \* due time of the Clock.schedule_interval event of __init__
    ev,            \* observation: what the handler that ran last did
    lastCall,      \* observation: the last refresh(force=False) call, if it
                   \* was made less than CACHE_SEC ago
    \* ---- Weather.deg_to_compass8 as a pure function ----------------------
    deg,           \* the bearing handed to deg_to_compass8
    compass,       \* the result for deg, <<"pending">> before the call
    compass360,    \* the result for deg + 360 degrees
    \* ---- core/gps_utils.py: the GPSTracker singleton ----------------------
    platform,      \* "android": Plyer's GPS works; "plyer_stub": Plyer imports
                   \* but its GPS raises NotImplementedError; "desktop": no Plyer
    _lat,          \* GPSTracker._lat, in millionths of a degree
    _lon,          \* GPSTracker._lon, in millionths of a degree
    _speed_mps,    \* GPSTracker._speed_mps, in tenths of a metre per second
    _enabled,      \* GPSTracker._enabled
    _subscribers,  \* GPSTracker._subscribers
    gpsRunning,    \* Plyer's gps is started and delivers locations
    fakeTimers,    \* the Clock events scheduled for _fake_desktop_gps
    fakeT,         \* whole seconds of time.time() - _t0 at the last tick
    gev,           \* observation: what the GPS handler that ran last did
    received,      \* observation: a location update has been received
    stopped,       \* observation: stop() has returned, start() not called since
    live,          \* observation: the subscriptions made and not unsubscribed
    \* ---- _on_location on Plyer's thread, readers on the UI thread ---------
    wpc,           \* the line _on_location is about to execute, or "idle"
    kw,            \* the keywords of the location update being processed
    nUpd,          \* observation: the number of updates Plyer has delivered
    hist,          \* observation: the fixes written so far, __init__'s included
    rpc,           \* the read the reader on the UI thread makes next, or "idle"
    rbuf,          \* the values the reader has read
    rres,          \* observation: what the reader that finished last returned
    \* ---- core/db.py: the SQLite store -----------------------------------
    Session,       \* the rows of the Session table, in rowid order
    GPSLog,        \* the rows of the GPSLog table
    Catch,         \* the rows of the Catch table
    WeatherLog,    \* the rows of the WeatherLog table
    utc,           \* datetime.utcnow(), in units of 0.01 h (36 s)
    dbev,          \* observation: what the db helper that ran last did
    \* ---- the app's screens (ui/screens) ---------------------------------
    current_session,  \* app.current_session: Missing or <<session id>>
    screen         \* "home", "to_track" (TrackScreen is being entered),
                   \* "track", or "stopped" (the app's process has ended)

weatherVars == <<data, time_utc, _last_fetch, _db_hook, _on_refresh, now,
                 nextPoll, ev, lastCall>>
compassVars == <<deg, compass, compass360>>
gpsVars == <<platform, _lat, _lon, _speed_mps, _enabled, _subscribers,
             gpsRunning, fakeTimers, fakeT, gev, received, stopped, live>>
raceVars == <<wpc, kw, nUpd, hist, rpc, rbuf, rres>>
dbVars == <<Session, GPSLog, Catch, WeatherLog, utc, dbev>>
uiVars == <<current_session, screen>>
vars == <<weatherVars, compassVars, gpsVars, raceVars, dbVars, uiVars>>

\* what the handlers of one component leave alone
notWeather == <<compassVars, gpsVars, raceVars, dbVars, uiVars>>
notCompass == <<weatherVars, gpsVars, raceVars, dbVars, uiVars>>
notGps == <<weatherVars, compassVars, raceVars, dbVars, uiVars>>
notRace == <<weatherVars, compassVars, dbVars, uiVars>>
notDb == <<weatherVars, compassVars, gpsVars, raceVars, uiVars>>

None == <<>>
Missing == <<>>
Some(v) == <<v>>

-----------------------------------------------------------------------------
(* Bounds of the model *)

\* bearing units per degree
Scale == 2
\* the bearings handed to deg_to_compass8 range over 0 .. MaxTurns full turns
MaxTurns == 2
\* the clock runs for MaxTicks steps of Step seconds after construction
MaxTicks == 6
\* at most MaxSubs callbacks are subscribed
MaxSubs == 2
\* at most MaxTimers Clock events are scheduled for the synthetic fix
MaxTimers == 2
\* the desktop clock ticks MaxFakeT times
MaxFakeT == 3
\* at most MaxFails of the parameter requests of one round fail
MaxFails == 1
\* the buoy's newest samples are numbered 1 .. MaxVal: sample v carries the
\* values 10 * v + (the parameter's index) and the timestamps v - 1 and v
MaxVal == 2
\* Plyer delivers at most MaxUpdates location updates while readers run
MaxUpdates == 2
\* at most MaxSessions sessions are started
MaxSessions == 2
\* at most MaxRows rows are logged, over the three log tables
MaxRows == 3
\* the UTC clock runs for MaxClock units of 0.01 h
MaxClock == 1
\* the positions logged are the first MaxPoint of Points
MaxPoint == 2

-----------------------------------------------------------------------------
(* Weather.deg_to_compass8, core/waves.py:94-101 *)

directions == <<"N", "NE", "E", "SE", "S", "SW", "W", "NW">>

RoundHalfUp(num, den) == (2 * num + den) \div (2 * den)

\* Python's round(num / den) for num >= 0, den > 0: to nearest, ties to even
round(num, den) ==
    LET q == num \div den
        r == num % den
    IN  IF 2 * r < den THEN q
        ELSE IF 2 * r > den THEN q + 1
        ELSE IF q % 2 = 0 THEN q ELSE q + 1

\* mutant: round() replaced by rounding half up, int(x + 0.5)
deg_to_compass8_halfup(d) ==
    IF d # 0
      THEN Some(directions[(RoundHalfUp(d, 45 * Scale) % 8) + 1])
      ELSE None

\* `if deg:` is false for 0 (and 0.0); directions is indexed from 0 in Python
deg_to_compass8(d) ==
    IF d # 0
      THEN LET idx == round(d, 45 * Scale) % 8
           IN  Some(directions[idx + 1])
      ELSE None

-----------------------------------------------------------------------------
(* core/waves.py: parameters and the request for one parameter *)

\* the names of PARAM_IDS, in the dict's (insertion) order
PARAM_IDS == <<"wind_speed_mph", "max_wind_speed_mph", "wind_direction_deg",
               "air_temp_f", "sig_wave_ft", "dominant_wave_period_s",
               "dominant_wave_direction_deg", "max_wave_ft">>
NParams == Len(PARAM_IDS)

CACHE_SEC == 600
POLL_SEC == 1800

\* the grid of the clock, and time.time() when the object is constructed
\* (the epoch clock is far past CACHE_SEC)
Step == CACHE_SEC \div 2
T0 == CACHE_SEC

\* What the server answers during one round of requests: which requests fail
\* (network error or an "error" in the JSON), and the newest sample of each
\* parameter.  A round in which a request fails is drawn with the newest
\* sample, which differs from those of the rounds before.
Worlds ==
    { [fails |-> {}, val |-> v] : v \in 1 .. MaxVal }
    \cup
    { [fails |-> f, val |-> MaxVal] :
        f \in { x \in SUBSET (1 .. NParams) :
                  Cardinality(x) \in 1 .. MaxFails } }

\* the wind bearing the buoy reports: 0 or 45 degrees
WindDir(world) == IF world.val % 2 = 0 THEN 0 ELSE 45 * Scale

\* the parameter whose sample is the newest one of the round
Newest(world) == ((3 * world.val) % NParams) + 1

SampleValue(world, i) ==
    IF PARAM_IDS[i] = "wind_direction_deg" THEN WindDir(world)
    ELSE IF PARAM_IDS[i] = "dominant_wave_direction_deg"
           THEN (WindDir(world) + 90 * Scale * world.val) % (360 * Scale)
    ELSE 10 * world.val + i

SampleStamp(world, i) == IF i = Newest(world) THEN world.val ELSE world.val - 1

\* _latest: raises (ok = FALSE) or returns (ts, value) of the newest sample
_latest(world, i) ==
    IF i \in world.fails
      THEN [ok |-> FALSE, ts |-> 0, value |-> 0]
      ELSE [ok |-> TRUE, ts |-> SampleStamp(world, i),
            value |-> SampleValue(world, i)]

\* dict.get
Get(d, k) == IF k \in DOMAIN d THEN d[k] ELSE None
\* d[k] = v
Put(d, k, v) == [x \in (DOMAIN d) \cup {k} |-> IF x = k THEN v ELSE d[x]]

-----------------------------------------------------------------------------
(* Weather.refresh, core/waves.py:63-92 *)

\* lines 68-77: the loop over PARAM_IDS inside the try block; the first
\* request that raises ends the loop
RECURSIVE FetchLoop(_, _, _, _)
FetchLoop(world, i, buf, latest_time) ==
    IF i > NParams
      THEN [raised |-> FALSE, buf |-> buf, latest_time |-> latest_time,
            requests |-> NParams]
      ELSE LET r == _latest(world, i)
           IN  IF ~r.ok
                 THEN [raised |-> TRUE, buf |-> buf,
                       latest_time |-> latest_time, requests |-> i]
                 ELSE FetchLoop(world, i + 1,
                                Put(buf, PARAM_IDS[i], Some(r.value)),
                                IF latest_time = None \/ r.ts > latest_time[1]
                                  THEN Some(r.ts) ELSE latest_time)

\* lines 83-89: the derived compass fields
Derived(d) ==
    LET d1 == IF Get(d, "wind_direction_deg") # None
                THEN Put(d, "wind_direction_compass",
                         deg_to_compass8(d["wind_direction_deg"][1]))
                ELSE d
    IN  IF Get(d1, "dominant_wave_direction_deg") # None
          THEN Put(d1, "dominant_wave_direction_compass",
                   deg_to_compass8(d1["dominant_wave_direction_deg"][1]))
          ELSE d1

\* mutant: the cache test without force
CacheHit_ignoresForce(self, force, t) == t - self._last_fetch < CACHE_SEC

\* the cache test of line 64
CacheHit(self, force, t) == ~force /\ t - self._last_fetch < CACHE_SEC

\* the hooks refresh invokes after a download, lines 91-92
HookCalls(self) ==
    IF self._db_hook # None
      THEN << [fn |-> self._db_hook[1],
               arg |-> [data |-> self.data, time_utc |-> self.time_utc]] >>
      ELSE << >>

\* the try block of one round, per server state (a table: the loop reads
\* nothing of the object)
Round == [world \in Worlds |-> FetchLoop(world, 1, << >>, None)]

\* mutant: the fields assigned inside the loop, so that a failing round leaves
\* the parameters fetched before the failure
refresh_partial(self, force, t, world) ==
    IF CacheHit(self, force, t)
      THEN [self |-> self, outcome |-> "cached", requests |-> 0,
            hooks |-> << >>]
      ELSE LET r == Round[world]
               new == [self EXCEPT !.time_utc = r.latest_time,
                                   !.data = Some(Derived(r.buf)),
                                   !._last_fetch = t]
           IN  IF r.raised
                 THEN [self |-> [new EXCEPT !._last_fetch = self._last_fetch],
                       outcome |-> "failed",
                       requests |-> r.requests, hooks |-> << >>]
                 ELSE [self |-> new, outcome |-> "ok",
                       requests |-> r.requests, hooks |-> HookCalls(new)]

\* refresh(self, force) called at time t against the server state world:
\* the object afterwards, and what the call did.  The round is one step on
\* the grid of the clock: time.time() of line 81 reads the t of line 64 (a
\* later reading only moves _last_fetch towards the next call).
refresh(self, force, t, world) ==
    IF CacheHit(self, force, t)
      THEN [self |-> self, outcome |-> "cached", requests |-> 0,
            hooks |-> << >>]
      ELSE LET r == Round[world]
           IN  IF r.raised
                 THEN [self |-> self, outcome |-> "failed",
                       requests |-> r.requests, hooks |-> << >>]
                 ELSE LET new == [self EXCEPT !.time_utc = r.latest_time,
                                              !.data = Some(Derived(r.buf)),
                                              !._last_fetch = t]
                      IN  [self |-> new, outcome |-> "ok",
                           requests |-> r.requests, hooks |-> HookCalls(new)]

\* Weather.__getattr__, lines 51-54, called for a name the normal lookup does
\* not find.  self.data inside it is such a lookup again: when data was never
\* assigned it comes back here with the name "data" and raises.
__getattr__(self, name) ==
    IF name \in {PARAM_IDS[i] : i \in 1 .. NParams}
      THEN IF self.data = Missing
             THEN [raised |-> TRUE, value |-> None]
             ELSE [raised |-> FALSE, value |-> Get(self.data[1], name)]
      ELSE [raised |-> TRUE, value |-> None]

\* the expression w.<name> evaluated by a consumer (TrackScreen.update_wave,
\* Root._update_weather): the instance attribute when it was assigned,
\* __getattr__ otherwise
ReadAttr(self, name) ==
    IF name = "time_utc" /\ self.time_utc # Missing
      THEN [raised |-> FALSE, value |-> self.time_utc]
      ELSE __getattr__(self, name)

-----------------------------------------------------------------------------
(* The Weather object and the handlers that run on the Clock's thread *)

\* the callables given to Weather(db_hook=...) and to set_refresh_hook
DbHooks == {"db_hook"}
RefreshHooks == {"on_refresh"}

Self == [data |-> data, time_utc |-> time_utc, _last_fetch |-> _last_fetch,
         _db_hook |-> _db_hook, _on_refresh |-> _on_refresh]

\* the hooks registered on the object, through either way
Registered(self) ==
    {self._db_hook[i] : i \in DOMAIN self._db_hook}
      \cup {self._on_refresh[i] : i \in DOMAIN self._on_refresh}

\* the first request of the round that fails, 0 if none does
FailAt(world) ==
    IF world.fails = {} THEN 0
    ELSE CHOOSE i \in world.fails : \A j \in world.fails : i <= j

\* Observation of one handler run: what was called, what it did (res), how
\* many requests of its round failed and which one first, the hooks registered
\* when it was called, whether it changed the object, the age of the last
\* fetch when it was called, and the non-forced call before it (pair).
Event(kind, force, world, res, self, t, prev) ==
    [kind |-> kind, force |-> force, outcome |-> res.outcome,
     requests |-> res.requests,
     nfails |-> IF res.outcome = "cached" THEN 0
                ELSE Cardinality(world.fails),
     failAt |-> IF res.outcome = "cached" THEN 0 ELSE FailAt(world),
     hooks |-> res.hooks, registered |-> Registered(self),
     changed |-> res.self # self, age |-> t - self._last_fetch,
     pair |-> IF prev = None THEN None
              ELSE Some([gap |-> t - prev[1].t, round |-> prev[1].round,
                         ok |-> prev[1].ok])]

NoRun(kind) ==
    [kind |-> kind, force |-> FALSE, outcome |-> "none", requests |-> 0,
     nfails |-> 0, failAt |-> 0, hooks |-> << >>, registered |-> {},
     changed |-> FALSE, age |-> 0, pair |-> None]

\* the last non-forced call, for the next one
Summary(force, t, res, prev) ==
    IF force THEN prev
    ELSE Some([t |-> t, round |-> res.requests > 0,
               ok |-> res.outcome = "ok"])

\* a call of refresh(force) at time now, from the handler kind
Call(kind, force) ==
    \E world \in IF CacheHit(Self, force, now)
                   THEN {CHOOSE w \in Worlds : TRUE} ELSE Worlds :
        LET res == refresh(Self, force, now, world)
        IN  /\ data' = res.self.data
            /\ time_utc' = res.self.time_utc
            /\ _last_fetch' = res.self._last_fetch
            /\ _db_hook' = res.self._db_hook
            /\ _on_refresh' = res.self._on_refresh
            /\ ev' = Event(kind, force, world, res, Self, now, lastCall)
            /\ lastCall' = Summary(force, now, res, lastCall)
            /\ UNCHANGED now

\* Weather.__init__, lines 41-49: the fields, the POLL_SEC event, and the
\* first download
WeatherInit ==
    \E hook \in {None} \cup {Some(h) : h \in DbHooks}, world \in Worlds :
        LET blank == [data |-> Missing, time_utc |-> Missing,
                      _last_fetch |-> 0, _db_hook |-> hook,
                      _on_refresh |-> Missing]
            res == refresh(blank, TRUE, T0, world)
        IN  /\ data = res.self.data
            /\ time_utc = res.self.time_utc
            /\ _last_fetch = res.self._last_fetch
            /\ _db_hook = res.self._db_hook
            /\ _on_refresh = res.self._on_refresh
            /\ now = T0
            /\ nextPoll = T0 + POLL_SEC
            /\ ev = Event("init", TRUE, world, res, blank, T0, None)
            /\ lastCall = Summary(TRUE, T0, res, None)

\* a consumer calls refresh (TrackScreen.update_wave, WeatherPopup.update_labels
\* and Root._update_weather call refresh(); force is the caller's choice)
Refresh ==
    /\ \E force \in BOOLEAN : Call("refresh", force)
    /\ UNCHANGED nextPoll
    /\ UNCHANGED notWeather

\* mutant: the timer forcing the refresh
PollTimer_forced ==
    /\ now >= nextPoll
    /\ Call("timer", TRUE)
    /\ nextPoll' = nextPoll + POLL_SEC
    /\ UNCHANGED notWeather

\* the event of line 48, lambda *_: self.refresh(), when it is due
PollTimer ==
    /\ now >= nextPoll
    /\ Call("timer", FALSE)
    /\ nextPoll' = nextPoll + POLL_SEC
    /\ UNCHANGED notWeather

\* Weather.set_refresh_hook, lines 57-59
set_refresh_hook ==
    /\ \E fn \in RefreshHooks : _on_refresh' = Some(fn)
    /\ ev' = NoRun("set_refresh_hook")
    /\ UNCHANGED <<data, time_utc, _last_fetch, _db_hook, now, nextPoll,
                   lastCall>>
    /\ UNCHANGED notWeather

\* time passes; the Clock dispatches a due event before anything later
Advance ==
    /\ now < T0 + MaxTicks * Step
    /\ now + Step <= nextPoll
    /\ now' = now + Step
    /\ ev' = NoRun("idle")
    /\ lastCall' = IF lastCall # None /\ now' - lastCall[1].t >= CACHE_SEC
                     THEN None
                     ELSE lastCall
    /\ UNCHANGED <<data, time_utc, _last_fetch, _db_hook, _on_refresh,
                   nextPoll>>
    /\ UNCHANGED notWeather

-----------------------------------------------------------------------------
(* deg_to_compass8 applied to one bearing and to the same bearing a turn on *)

Pending == <<"pending">>
Turn == 360 * Scale

CompassInit ==
    /\ deg \in 0 .. MaxTurns * Turn
    /\ compass = Pending
    /\ compass360 = Pending

CompassIdle ==
    /\ deg = 0
    /\ compass = Pending
    /\ compass360 = Pending

CompassCall ==
    /\ compass = Pending
    /\ compass' = deg_to_compass8(deg)
    /\ compass360' = deg_to_compass8(deg + Turn)
    /\ UNCHANGED deg
    /\ UNCHANGED notCompass

WeatherIdle ==
    /\ data = Missing /\ time_utc = Missing /\ _last_fetch = 0
    /\ _db_hook = None /\ _on_refresh = Missing
    /\ now = T0 /\ nextPoll = T0 + POLL_SEC
    /\ ev = NoRun("idle") /\ lastCall = None

-----------------------------------------------------------------------------
(* core/gps_utils.py: GPSTracker *)

\* the callables handed to subscribe
Callbacks == {"cb1", "cb2"}

\* what the platform hands to _on_location (a missing keyword reads as 0.0)
Lats == {0, 45000000}
Lons == {0, -122000000}
Speeds == {-10, 0, 20}

\* speed_kph, lines 65-67, in hundredths of a km/h: _speed_mps * 3.6
speed_kph(speed_mps) == speed_mps * 36

\* 1000 * cos(0.5 * t) and 1000 * sin(0.5 * t) for t = 1, 2, ... seconds
Cos1000 == <<878, 540, 71, -416, -801, -990, -936, -654>>
Sin1000 == <<479, 841, 997, 909, 598, 141, -351, -757>>

\* the spiral of _fake_desktop_gps, lines 130-134: radius 0.0002 * t degrees
FakeLat(t) == 45000000 + (200 * t * Cos1000[t]) \div 1000
FakeLon(t) == -122000000 + (200 * t * Sin1000[t]) \div 1000

\* the loop over _subscribers of lines 116-117 and 136-137
Deliver(subs, lat, lon, speed_mps) ==
    [i \in DOMAIN subs |->
        [cb |-> subs[i], lat |-> lat, lon |-> lon,
         spd |-> speed_kph(speed_mps)]]

GpsEvent(kind, delivered, raised) ==
    [kind |-> kind, delivered |-> delivered, raised |-> raised]

\* GPSTracker.__init__, lines 48-56, on one of the three platforms
GpsInit ==
    /\ platform \in {"android", "plyer_stub", "desktop"}
    /\ _lat = 0 /\ _lon = 0 /\ _speed_mps = 0
    /\ _enabled = FALSE
    /\ _subscribers = << >>
    /\ gpsRunning = FALSE /\ fakeTimers = 0 /\ fakeT = 0
    /\ gev = GpsEvent("init", << >>, FALSE)
    /\ received = FALSE /\ stopped = FALSE /\ live = << >>

GpsIdle ==
    /\ platform = "desktop"
    /\ _lat = 0 /\ _lon = 0 /\ _speed_mps = 0
    /\ _enabled = FALSE
    /\ _subscribers = << >>
    /\ gpsRunning = FALSE /\ fakeTimers = 0 /\ fakeT = 0
    /\ gev = GpsEvent("init", << >>, FALSE)
    /\ received = FALSE /\ stopped = FALSE /\ live = << >>

\* seq without its i-th element
Remove(seq, i) == SubSeq(seq, 1, i - 1) \o SubSeq(seq, i + 1, Len(seq))

\* GPSTracker.start, lines 78-97
start ==
    /\ \/ /\ _enabled
          /\ UNCHANGED <<_enabled, gpsRunning, fakeTimers>>
       \/ /\ ~_enabled /\ platform = "android"
          /\ gpsRunning' = TRUE
          /\ _enabled' = TRUE
          /\ UNCHANGED fakeTimers
       \/ /\ ~_enabled /\ platform = "plyer_stub"
          /\ UNCHANGED <<_enabled, gpsRunning, fakeTimers>>
       \/ /\ ~_enabled /\ platform = "desktop"
          /\ fakeTimers < MaxTimers
          /\ fakeTimers' = fakeTimers + 1
          /\ _enabled' = TRUE
          /\ UNCHANGED gpsRunning
    /\ gev' = GpsEvent("start", << >>, FALSE)
    /\ stopped' = FALSE
    /\ UNCHANGED <<platform, _lat, _lon, _speed_mps, _subscribers, fakeT,
                   received, live>>
    /\ UNCHANGED notGps

\* GPSTracker.stop, lines 99-104
stop ==
    /\ \/ /\ ~_enabled
          /\ UNCHANGED <<_enabled, gpsRunning>>
       \/ /\ _enabled
          /\ gpsRunning' = IF platform # "desktop" THEN FALSE ELSE gpsRunning
          /\ _enabled' = FALSE
    /\ gev' = GpsEvent("stop", << >>, FALSE)
    /\ stopped' = TRUE
    /\ UNCHANGED <<platform, _lat, _lon, _speed_mps, _subscribers, fakeTimers,
                   fakeT, received, live>>
    /\ UNCHANGED notGps

\* GPSTracker.subscribe, lines 107-109; it returns None
subscribe ==
    /\ Len(_subscribers) < MaxSubs
    /\ \E cb \in Callbacks :
          /\ _subscribers' = Append(_subscribers, cb)
          /\ live' = Append(live, cb)
    /\ gev' = GpsEvent("subscribe", << >>, FALSE)
    /\ UNCHANGED <<platform, _lat, _lon, _speed_mps, _enabled, gpsRunning,
                   fakeTimers, fakeT, received, stopped>>
    /\ UNCHANGED notGps

\* TrackScreen.on_leave, ui/screens/track.py:53-56: app.gps.unsubscribe(cb) for
\* a callback it subscribed.  GPSTracker defines no unsubscribe: the call
\* raises AttributeError and the tracker is as before.
unsubscribe ==
    /\ \E i \in DOMAIN live : live' = Remove(live, i)
    /\ gev' = GpsEvent("unsubscribe", << >>, TRUE)
    /\ UNCHANGED <<platform, _lat, _lon, _speed_mps, _enabled, _subscribers,
                   gpsRunning, fakeTimers, fakeT, received, stopped>>
    /\ UNCHANGED notGps

\* GPSTracker._on_location, lines 112-117, called by Plyer while it is started
_on_location ==
    /\ gpsRunning
    /\ \E lat \in Lats, lon \in Lons, speed \in Speeds :
          /\ _lat' = lat
          /\ _lon' = lon
          /\ _speed_mps' = speed
          /\ gev' = GpsEvent("location",
                             Deliver(_subscribers, lat, lon, speed), FALSE)
    /\ received' = TRUE
    /\ UNCHANGED <<platform, _enabled, _subscribers, gpsRunning, fakeTimers,
                   fakeT, stopped, live>>
    /\ UNCHANGED notGps

\* _fake_desktop_gps, lines 126-137, run once by one Clock event
FakeFix(t) ==
    [lat |-> FakeLat(t), lon |-> FakeLon(t), speed_mps |-> 15]

RECURSIVE Repeat(_, _)
Repeat(seq, n) == IF n = 0 THEN << >> ELSE seq \o Repeat(seq, n - 1)

\* One second of the Clock: every event scheduled for _fake_desktop_gps runs
\* once.  Nothing cancels these events.
fake_desktop_gps_tick ==
    /\ fakeTimers > 0
    /\ fakeT < MaxFakeT
    /\ fakeT' = fakeT + 1
    /\ LET fix == FakeFix(fakeT')
       IN  /\ _lat' = fix.lat
           /\ _lon' = fix.lon
           /\ _speed_mps' = fix.speed_mps
           /\ gev' = GpsEvent("fake_tick",
                              Repeat(Deliver(_subscribers, fix.lat, fix.lon,
                                             fix.speed_mps), fakeTimers),
                              FALSE)
    /\ received' = TRUE
    /\ UNCHANGED <<platform, _enabled, _subscribers, gpsRunning, fakeTimers,
                   stopped, live>>
    /\ UNCHANGED notGps

\* last_fix, lines 142-150
last_fix ==
    IF _lat = 0 /\ _lon = 0 /\ _speed_mps = 0
      THEN None
      ELSE Some(<<_lat, _lon, speed_kph(_speed_mps)>>)

-----------------------------------------------------------------------------
(* _on_location on the thread Plyer calls it from, line by line, against    *)
(* last_fix and latlon on the UI thread, read by read.  The interpreter     *)
(* switches threads between any two attribute accesses; nothing in          *)
(* gps_utils.py locks the fields or hands the update over to the Clock.     *)

NoKw == [lat |-> 0, lon |-> 0, speed |-> 0]
NoRead == [lat |-> 0, lon |-> 0, spd |-> 0]
ReaderResult(kind, value) == [kind |-> kind, value |-> value]

RaceIdle ==
    /\ wpc = "idle" /\ kw = NoKw /\ nUpd = 0
    /\ hist = {NoKw}
    /\ rpc = "idle" /\ rbuf = NoRead
    /\ rres = ReaderResult("none", None)

\* GPSTracker.__init__ and start() on a platform where Plyer's GPS works
RaceInit ==
    /\ platform = "android"
    /\ _lat = 0 /\ _lon = 0 /\ _speed_mps = 0
    /\ _enabled = TRUE
    /\ _subscribers \in {<< >>} \cup {<<cb>> : cb \in Callbacks}
    /\ gpsRunning = TRUE /\ fakeTimers = 0 /\ fakeT = 0
    /\ gev = GpsEvent("start", << >>, FALSE)
    /\ received = FALSE /\ stopped = FALSE /\ live = _subscribers

\* line 113: Plyer calls _on_location(**kw); self._lat is assigned
_on_location_113 ==
    /\ gpsRunning /\ wpc = "idle" /\ nUpd < MaxUpdates
    /\ \E lat \in Lats, lon \in Lons, speed \in Speeds :
          /\ kw' = [lat |-> lat, lon |-> lon, speed |-> speed]
          /\ _lat' = lat
    /\ nUpd' = nUpd + 1
    /\ hist' = hist \cup {kw'}
    /\ wpc' = "114"
    /\ UNCHANGED <<platform, _lon, _speed_mps, _enabled, _subscribers,
                   gpsRunning, fakeTimers, fakeT, gev, received, stopped, live>>
    /\ UNCHANGED <<rpc, rbuf, rres>>
    /\ UNCHANGED notRace

\* line 114: self._lon is assigned
_on_location_114 ==
    /\ wpc = "114"
    /\ _lon' = kw.lon
    /\ wpc' = "115"
    /\ UNCHANGED <<platform, _lat, _speed_mps, _enabled, _subscribers,
                   gpsRunning, fakeTimers, fakeT, gev, received, stopped, live>>
    /\ UNCHANGED <<kw, nUpd, hist, rpc, rbuf, rres>>
    /\ UNCHANGED notRace

\* line 115: self._speed_mps is assigned
_on_location_115 ==
    /\ wpc = "115"
    /\ _speed_mps' = kw.speed
    /\ wpc' = "116"
    /\ UNCHANGED <<platform, _lat, _lon, _enabled, _subscribers,
                   gpsRunning, fakeTimers, fakeT, gev, received, stopped, live>>
    /\ UNCHANGED <<kw, nUpd, hist, rpc, rbuf, rres>>
    /\ UNCHANGED notRace

\* lines 116-117: the subscribers are invoked, and _on_location returns
_on_location_116 ==
    /\ wpc = "116"
    /\ gev' = GpsEvent("location",
                       Deliver(_subscribers, _lat, _lon, _speed_mps), FALSE)
    /\ received' = TRUE
    /\ wpc' = "idle"
    /\ UNCHANGED <<platform, _lat, _lon, _speed_mps, _enabled, _subscribers,
                   gpsRunning, fakeTimers, fakeT, stopped, live>>
    /\ UNCHANGED <<kw, nUpd, hist, rpc, rbuf, rres>>
    /\ UNCHANGED notRace

\* what a step of a reader leaves alone
ReaderFrame ==
    /\ UNCHANGED gpsVars
    /\ UNCHANGED <<wpc, kw, nUpd, hist>>
    /\ UNCHANGED notRace

\* last_fix, line 148: tr._lat of the chained comparison
last_fix_148_lat ==
    /\ rpc = "idle"
    /\ rbuf' = [NoRead EXCEPT !.lat = _lat]
    /\ rpc' = "148_lon"
    /\ UNCHANGED rres
    /\ ReaderFrame

\* line 148: tr._lon; tr._lat == tr._lon == 0.0 decides whether the speed is
\* tested
last_fix_148_lon ==
    /\ rpc = "148_lon"
    /\ rbuf' = [rbuf EXCEPT !.lon = _lon]
    /\ rpc' = IF rbuf.lat = _lon /\ _lon = 0 THEN "148_speed" ELSE "150_lat"
    /\ UNCHANGED rres
    /\ ReaderFrame

\* line 148: tr._speed_mps == 0.0; line 149 returns None
last_fix_148_speed ==
    /\ rpc = "148_speed"
    /\ IF _speed_mps = 0
         THEN /\ rres' = ReaderResult("last_fix", None)
              /\ rpc' = "idle"
              /\ rbuf' = NoRead
         ELSE /\ rpc' = "150_lat"
              /\ UNCHANGED <<rres, rbuf>>
    /\ ReaderFrame

\* line 150: tr._lat
last_fix_150_lat ==
    /\ rpc = "150_lat"
    /\ rbuf' = [NoRead EXCEPT !.lat = _lat]
    /\ rpc' = "150_lon"
    /\ UNCHANGED rres
    /\ ReaderFrame

\* line 150: tr._lon
last_fix_150_lon ==
    /\ rpc = "150_lon"
    /\ rbuf' = [rbuf EXCEPT !.lon = _lon]
    /\ rpc' = "150_speed"
    /\ UNCHANGED rres
    /\ ReaderFrame

\* line 150: tr.speed_kph, and the tuple is returned
last_fix_150_speed ==
    /\ rpc = "150_speed"
    /\ rres' = ReaderResult("last_fix",
                            Some(<<rbuf.lat, rbuf.lon, speed_kph(_speed_mps)>>))
    /\ rpc' = "idle"
    /\ rbuf' = NoRead
    /\ ReaderFrame

\* the latlon property, line 75: self._lat
latlon_lat ==
    /\ rpc = "idle"
    /\ rbuf' = [NoRead EXCEPT !.lat = _lat]
    /\ rpc' = "75_lon"
    /\ UNCHANGED rres
    /\ ReaderFrame

\* line 75: self._lon, and the pair is returned
latlon_lon ==
    /\ rpc = "75_lon"
    /\ rres' = ReaderResult("latlon", Some(<<rbuf.lat, _lon>>))
    /\ rpc' = "idle"
    /\ rbuf' = NoRead
    /\ ReaderFrame

-----------------------------------------------------------------------------
(* core/db.py: the store and its helpers *)

\* _utcnow, lines 139-140: an aware datetime, on the grid of the clock
_utcnow == [t |-> utc, aware |-> TRUE]

\* What is stored for a datetime: sqlite3 adapts it to the text
\* datetime.isoformat(" "), which ends in "+00:00" for an aware value.
isoformat(dt) == [t |-> dt.t, tz |-> IF dt.aware THEN "+00:00" ELSE ""]

\* What a DateTimeField gives back for a stored text: the datetime when one
\* of its formats ('%Y-%m-%d %H:%M:%S.%f', '%Y-%m-%d %H:%M:%S', '%Y-%m-%d')
\* matches the whole text, the text itself (a str) otherwise.  None of the
\* formats accepts a UTC offset.
python_value(text) ==
    IF text.tz = ""
      THEN [str |-> FALSE, t |-> text.t, tz |-> ""]
      ELSE [str |-> TRUE, t |-> text.t, tz |-> text.tz]

\* the order of two stored texts (ORDER BY on a text column): equal digits,
\* then the shorter text first
TextLess(a, b) == a.t < b.t \/ (a.t = b.t /\ a.tz = "" /\ b.tz # "")

\* the positions logged: (45.0, -122.0), (45.001, -122.001), (45.002, -122.002)
\* in millionths of a degree
Points == <<[latitude |-> 45000000, longitude |-> -122000000],
            [latitude |-> 45001000, longitude |-> -122001000],
            [latitude |-> 45002000, longitude |-> -122002000]>>

PointOf(lat, lon) ==
    CHOOSE k \in DOMAIN Points :
        Points[k].latitude = lat /\ Points[k].longitude = lon

\* _haversine, lines 234-240, in millimetres, on Points
HaversineMm == <<<<0, 136185, 272369>>,
                 <<136185, 0, 136184>>,
                 <<272369, 136184, 0>>>>
_haversine(lat1, lon1, lat2, lon2) ==
    HaversineMm[PointOf(lat1, lon1)][PointOf(lat2, lon2)]

SessionIds == {Session[i].id : i \in DOMAIN Session}

\* mutant: the pragma left off
ForeignKeyOk_off(sid) == TRUE

\* "foreign_keys": 1 (lines 55-58) with the ForeignKeyField of each log table:
\* SQLite rejects an INSERT whose session id is not in Session
ForeignKeyOk(sid) == sid \in SessionIds

\* Model.create on a log table: the INSERT either adds the row, with the next
\* rowid, or raises IntegrityError and adds nothing
create(table, row) ==
    IF ForeignKeyOk(row.session)
      THEN [rows |-> Append(table, [row EXCEPT !.id = Len(table) + 1]),
            raised |-> FALSE]
      ELSE [rows |-> table, raised |-> TRUE]

\* Observation of one helper call: the helper, whether the session id it was
\* given is in the store, whether it raised, whether it changed a table
DbEvent(op, sid, raised, changed) ==
    [op |-> op, exists |-> sid \in SessionIds,
     raised |-> raised, changed |-> changed]

NoDbEvent(op) ==
    [op |-> op, exists |-> FALSE, raised |-> FALSE, changed |-> FALSE]

\* `timestamp or _utcnow()`
Timestamp(timestamp) == IF timestamp # None THEN timestamp[1] ELSE _utcnow

\* the explicit timestamps a caller passes: None, or an aware UTC datetime
Timestamps == {None} \cup {Some([t |-> t, aware |-> TRUE]) : t \in 0 .. MaxClock}

Logged == Len(GPSLog) + Len(Catch) + Len(WeatherLog)

\* initialize(), lines 127-131, on a new file: four empty tables
DbInit ==
    /\ Session = << >> /\ GPSLog = << >> /\ Catch = << >>
    /\ WeatherLog = << >>
    /\ utc = 0
    /\ dbev = NoDbEvent("initialize")

\* Session.create of start_session, lines 143-145
NewSession(table) ==
    Append(table, [id |-> Len(table) + 1,
                   start_time |-> isoformat(_utcnow), end_time |-> None])

start_session ==
    /\ Len(Session) < MaxSessions
    /\ Session' = NewSession(Session)
    /\ dbev' = DbEvent("start_session", Len(Session) + 1, FALSE, TRUE)
    /\ UNCHANGED <<GPSLog, Catch, WeatherLog, utc>>
    /\ UNCHANGED notDb

\* end_session, lines 148-154: an UPDATE of the rows with that id
end_session ==
    /\ \E sid \in 1 .. Len(Session) + 1 :
          /\ Session' = [i \in DOMAIN Session |->
                            IF Session[i].id = sid
                              THEN [Session[i] EXCEPT
                                      !.end_time = Some(isoformat(_utcnow))]
                              ELSE Session[i]]
          /\ dbev' = DbEvent("end_session", sid, FALSE, Session' # Session)
    /\ UNCHANGED <<GPSLog, Catch, WeatherLog, utc>>
    /\ UNCHANGED notDb

\* log_gps, lines 157-173
log_gps ==
    /\ Logged < MaxRows
    /\ \E sid \in 1 .. Len(Session) + 1, k \in 1 .. MaxPoint,
          timestamp \in Timestamps :
          LET res == create(GPSLog,
                            [id |-> 0, session |-> sid,
                             timestamp |-> isoformat(Timestamp(timestamp)),
                             latitude |-> Points[k].latitude,
                             longitude |-> Points[k].longitude,
                             speed_kph |-> None])
          IN  /\ GPSLog' = res.rows
              /\ dbev' = DbEvent("log_gps", sid, res.raised,
                                 GPSLog' # GPSLog)
    /\ UNCHANGED <<Session, Catch, WeatherLog, utc>>
    /\ UNCHANGED notDb

\* log_catch, lines 176-197
log_catch ==
    /\ Logged < MaxRows
    /\ \E sid \in 1 .. Len(Session) + 1, k \in {1} :
          LET res == create(Catch,
                            [id |-> 0, session |-> sid,
                             timestamp |-> isoformat(Timestamp(None)),
                             species |-> "trout",
                             latitude |-> Points[k].latitude,
                             longitude |-> Points[k].longitude])
          IN  /\ Catch' = res.rows
              /\ dbev' = DbEvent("log_catch", sid, res.raised, Catch' # Catch)
    /\ UNCHANGED <<Session, GPSLog, WeatherLog, utc>>
    /\ UNCHANGED notDb

\* log_weather, lines 200-215
log_weather ==
    /\ Logged < MaxRows
    /\ \E sid \in 1 .. Len(Session) + 1 :
          LET res == create(WeatherLog,
                            [id |-> 0, session |-> sid,
                             timestamp |-> isoformat(Timestamp(None))])
          IN  /\ WeatherLog' = res.rows
              /\ dbev' = DbEvent("log_weather", sid, res.raised,
                                 WeatherLog' # WeatherLog)
    /\ UNCHANGED <<Session, GPSLog, Catch, utc>>
    /\ UNCHANGED notDb

\* 36 seconds pass
TickUtc ==
    /\ utc < MaxClock
    /\ utc' = utc + 1
    /\ dbev' = NoDbEvent("idle")
    /\ UNCHANGED <<Session, GPSLog, Catch, WeatherLog>>
    /\ UNCHANGED notDb

\* the same, while the app runs
TickUi ==
    /\ screen # "stopped"
    /\ utc < MaxClock
    /\ utc' = utc + 1
    /\ dbev' = NoDbEvent("idle")
    /\ UNCHANGED <<Session, GPSLog, Catch, WeatherLog>>
    /\ UNCHANGED notDb

\* the rows of a table that reference the session sid, in rowid order
RECURSIVE Where(_, _)
Where(table, sid) ==
    IF table = << >> THEN << >>
    ELSE LET rest == Where(Tail(table), sid)
         IN  IF Head(table).session = sid THEN <<Head(table)>> \o rest
             ELSE rest

\* rows put in the order of their timestamp texts; rows with the same text
\* stay in rowid order
RECURSIVE InsertByTimestamp(_, _)
InsertByTimestamp(sorted, row) ==
    IF sorted = << >> THEN <<row>>
    ELSE IF TextLess(row.timestamp, Head(sorted).timestamp)
           THEN <<row>> \o sorted
           ELSE <<Head(sorted)>> \o InsertByTimestamp(Tail(sorted), row)

RECURSIVE order_by(_)
order_by(rows) ==
    IF rows = << >> THEN << >>
    ELSE InsertByTimestamp(order_by(SubSeq(rows, 1, Len(rows) - 1)),
                           rows[Len(rows)])

\* lines 248-250: the sum over zip(coords, coords[1:])
RECURSIVE Distance(_)
Distance(coords) ==
    IF Len(coords) < 2 THEN 0
    ELSE _haversine(coords[1].latitude, coords[1].longitude,
                    coords[2].latitude, coords[2].longitude)
           + Distance(Tail(coords))

\* get_session_summary, lines 223-260.  raised is "" when it returns;
\* distance_km and duration_h are in hundredths (round(x, 2)).
get_session_summary(sid) ==
    IF sid \notin SessionIds
      THEN [raised |-> "DoesNotExist", n_catches |-> 0, distance_km |-> 0,
            duration_h |-> None]
      ELSE
        LET sess == Session[CHOOSE i \in DOMAIN Session : Session[i].id = sid]
            start_time == python_value(sess.start_time)
            catches == Len(Where(Catch, sid))
            coords == order_by(Where(GPSLog, sid))
            dist == Distance(coords)
        IN  IF sess.end_time # None
                 /\ (start_time.str \/ python_value(sess.end_time[1]).str)
              THEN \* line 254: str - str
                   [raised |-> "TypeError", n_catches |-> 0,
                    distance_km |-> 0, duration_h |-> None]
              ELSE
                LET duration_h ==
                      IF sess.end_time # None
                        THEN Some(python_value(sess.end_time[1]).t
                                    - start_time.t)
                        ELSE None
                IN  [raised |-> "", n_catches |-> catches,
                     distance_km |-> round(dist, 10000),
                     duration_h |-> IF duration_h # None /\ duration_h[1] # 0
                                      THEN duration_h ELSE None]

-----------------------------------------------------------------------------
(* ui/screens: HomeScreen and TrackScreen, on an app that owns a GPSTracker *)
(* (app.gps) and a Weather (app.weather).  An exception that leaves a       *)
(* handler reaches Kivy's event loop and ends the app; the store is a file  *)
(* and outlives the process.                                                *)

\* the app before any screen handler ran
UiIdle == current_session = Missing /\ screen = "home"

\* the app is launched: the screen shown first is HomeScreen, or TrackScreen
\* (the case the hasattr test of on_enter is written for)
UiInit == current_session = Missing /\ screen \in {"home", "to_track"}

\* HomeScreen.start_trip, home.py:5-9; setting manager.current starts the
\* transition at the end of which TrackScreen.on_enter is dispatched
start_trip ==
    /\ screen = "home"
    /\ Len(Session) < MaxSessions
    /\ Session' = NewSession(Session)
    /\ current_session' = Some(Len(Session) + 1)
    /\ dbev' = DbEvent("start_session", Len(Session) + 1, FALSE, TRUE)
    /\ screen' = "to_track"
    /\ UNCHANGED <<GPSLog, Catch, WeatherLog, utc>>
    /\ UNCHANGED <<weatherVars, compassVars, gpsVars, raceVars>>

\* the server while the app runs: up, or down from the first request on
UiWorlds == {world \in Worlds : world.fails \subseteq {1}}

\* the fields update_wave formats, track.py:84-87
WaveFields == {"wind_speed_mph", "sig_wave_ft"}

\* TrackScreen.on_enter, track.py:20-50: a session when the app has none,
\* app.gps.subscribe(self._on_fix), the Clock event for update_wave (due in
\* 1800 s, beyond the time modelled here) and update_wave() itself, lines
\* 80-87: w.refresh() and the reads of the two fields, which raise when no
\* refresh has succeeded yet
on_enter ==
    /\ screen = "to_track"
    /\ IF current_session = Missing
         THEN /\ Len(Session) < MaxSessions
              /\ Session' = NewSession(Session)
              /\ current_session' = Some(Len(Session) + 1)
              /\ dbev' = DbEvent("start_session", Len(Session) + 1, FALSE,
                                 TRUE)
         ELSE /\ UNCHANGED <<Session, current_session>>
              /\ dbev' = NoDbEvent("idle")
    /\ _subscribers' = Append(_subscribers, "_on_fix")
    /\ live' = Append(live, "_on_fix")
    /\ gev' = GpsEvent("subscribe", << >>, FALSE)
    /\ \E world \in IF CacheHit(Self, FALSE, now)
                     THEN {CHOOSE w \in UiWorlds : TRUE} ELSE UiWorlds :
          LET res == refresh(Self, FALSE, now, world)
          IN  /\ data' = res.self.data
              /\ time_utc' = res.self.time_utc
              /\ _last_fetch' = res.self._last_fetch
              /\ ev' = Event("update_wave", FALSE, world, res, Self, now,
                             lastCall)
              /\ lastCall' = Summary(FALSE, now, res, lastCall)
    /\ UNCHANGED <<_db_hook, _on_refresh, now, nextPoll>>
    /\ screen' = IF \E name \in WaveFields : ReadAttr(Self', name).raised
                   THEN "stopped"
                   ELSE "track"
    /\ UNCHANGED <<GPSLog, Catch, WeatherLog, utc>>
    /\ UNCHANGED <<platform, _lat, _lon, _speed_mps, _enabled, gpsRunning,
                   fakeTimers, fakeT, received, stopped>>
    /\ UNCHANGED <<compassVars, raceVars>>

\* TrackScreen.on_leave, track.py:53-56: app.gps.unsubscribe does not exist,
\* the AttributeError leaves the handler
on_leave ==
    /\ screen = "track"
    /\ \E i \in DOMAIN live : live[i] = "_on_fix" /\ live' = Remove(live, i)
    /\ gev' = GpsEvent("unsubscribe", << >>, TRUE)
    /\ screen' = "stopped"
    /\ UNCHANGED current_session
    /\ UNCHANGED <<platform, _lat, _lon, _speed_mps, _enabled, _subscribers,
                   gpsRunning, fakeTimers, fakeT, received, stopped>>
    /\ UNCHANGED <<weatherVars, compassVars, raceVars, dbVars>>

\* TrackScreen._on_fix, track.py:58-78, invoked by the tracker with a fix:
\* db.log_gps(app.current_session, lat, lon, speed_kph=spd)
_on_fix ==
    /\ screen = "track"
    /\ Logged < MaxRows
    /\ \E k \in 1 .. MaxPoint, speed \in Speeds :
          LET res == create(GPSLog,
                            [id |-> 0, session |-> current_session[1],
                             timestamp |-> isoformat(Timestamp(None)),
                             latitude |-> Points[k].latitude,
                             longitude |-> Points[k].longitude,
                             speed_kph |-> Some(speed_kph(speed))])
          IN  /\ GPSLog' = res.rows
              /\ dbev' = DbEvent("log_gps", current_session[1], res.raised,
                                 GPSLog' # GPSLog)
    /\ UNCHANGED <<Session, Catch, WeatherLog, utc>>
    /\ UNCHANGED uiVars
    /\ UNCHANGED <<weatherVars, compassVars, gpsVars, raceVars>>

\* The user launches the app again after it has ended: a new app object
\* without current_session, a new GPSTracker, a new Weather (its constructor
\* downloads), the same store.
Relaunch ==
    /\ screen = "stopped"
    /\ current_session' = Missing
    /\ screen' \in {"home", "to_track"}
    /\ \E world \in UiWorlds :
          LET blank == [data |-> Missing, time_utc |-> Missing,
                        _last_fetch |-> 0, _db_hook |-> _db_hook,
                        _on_refresh |-> Missing]
              res == refresh(blank, TRUE, now, world)
          IN  /\ data' = res.self.data
              /\ time_utc' = res.self.time_utc
              /\ _last_fetch' = res.self._last_fetch
              /\ _on_refresh' = res.self._on_refresh
              /\ ev' = Event("init", TRUE, world, res, blank, now, None)
              /\ lastCall' = Summary(TRUE, now, res, None)
    /\ nextPoll' = now + POLL_SEC
    /\ _lat' = 0 /\ _lon' = 0 /\ _speed_mps' = 0
    /\ _enabled' = FALSE
    /\ _subscribers' = << >>
    /\ gpsRunning' = FALSE /\ fakeTimers' = 0 /\ fakeT' = 0
    /\ gev' = GpsEvent("init", << >>, FALSE)
    /\ received' = FALSE /\ stopped' = FALSE /\ live' = << >>
    /\ dbev' = NoDbEvent("idle")
    /\ UNCHANGED <<Session, GPSLog, Catch, WeatherLog, utc>>
    /\ UNCHANGED <<_db_hook, now, platform>>
    /\ UNCHANGED <<compassVars, raceVars>>

-----------------------------------------------------------------------------
(* Specifications *)

InitWeather == WeatherInit /\ CompassIdle /\ GpsIdle /\ RaceIdle
    /\ DbInit /\ UiIdle
NextWeather == Refresh \/ PollTimer \/ set_refresh_hook \/ Advance
SpecWeather == InitWeather /\ [][NextWeather]_vars

InitCompass == CompassInit /\ WeatherIdle /\ GpsIdle /\ RaceIdle
    /\ DbInit /\ UiIdle
NextCompass == CompassCall
SpecCompass == InitCompass /\ [][NextCompass]_vars

InitGps == GpsInit /\ WeatherIdle /\ CompassIdle /\ RaceIdle
    /\ DbInit /\ UiIdle
NextGps ==
    \/ start
    \/ stop
    \/ subscribe
    \/ unsubscribe
    \/ _on_location
    \/ fake_desktop_gps_tick
SpecGps == InitGps /\ [][NextGps]_vars

InitRace == RaceInit /\ RaceIdle /\ WeatherIdle /\ CompassIdle
    /\ DbInit /\ UiIdle
NextRace ==
    \/ _on_location_113
    \/ _on_location_114
    \/ _on_location_115
    \/ _on_location_116
    \/ last_fix_148_lat
    \/ last_fix_148_lon
    \/ last_fix_148_speed
    \/ last_fix_150_lat
    \/ last_fix_150_lon
    \/ last_fix_150_speed
    \/ latlon_lat
    \/ latlon_lon
SpecRace == InitRace /\ [][NextRace]_vars

InitDb == DbInit /\ UiIdle /\ WeatherIdle /\ CompassIdle /\ GpsIdle
    /\ RaceIdle
NextDb ==
    \/ start_session
    \/ end_session
    \/ log_gps
    \/ log_catch
    \/ log_weather
    \/ TickUtc
SpecDb == InitDb /\ [][NextDb]_vars

InitUi == DbInit /\ UiInit /\ CompassIdle /\ GpsIdle /\ RaceIdle
    /\ WeatherInit /\ _db_hook = None /\ ev.failAt <= 1
NextUi ==
    \/ start_trip
    \/ on_enter
    \/ on_leave
    \/ _on_fix
    \/ Relaunch
    \/ TickUi
SpecUi == InitUi /\ [][NextUi]_vars

-----------------------------------------------------------------------------
(* Claims about Weather.refresh, under SpecWeather *)

IsCall(e) == e.kind \in {"init", "refresh", "timer"}

\* the number of times the hook h was invoked by the handler that ran last
Invocations(h) == Cardinality({i \in DOMAIN ev.hooks : ev.hooks[i].fn = h})

\* the snapshot the object holds
Snapshot == [data |-> data, time_utc |-> time_utc]

\* C1: a refresh round in which exactly one of the N parameter requests fails
\* still completes: the snapshot holds the other N-1 parameters and not the
\* failed one, the timestamp and the last-fetch time are updated, and the hook
\* is invoked with that snapshot.
C1_PartialRefreshCompletes ==
    (IsCall(ev) /\ ev.outcome # "cached" /\ ev.nfails = 1) =>
        /\ ev.outcome = "ok"
        /\ data # Missing
        /\ \A i \in 1 .. NParams :
              (i = ev.failAt) <=> (Get(data[1], PARAM_IDS[i]) = None)
        /\ time_utc # Missing
        /\ _last_fetch = now
        /\ \A h \in {_db_hook[i] : i \in DOMAIN _db_hook} :
              /\ Invocations(h) = 1
              /\ \A i \in DOMAIN ev.hooks : ev.hooks[i].arg = Snapshot

\* C2, as claimed: two refresh(force=False) calls within CACHE_SEC of each
\* other perform exactly one network round (stated for a first call that is
\* not itself a cache hit: it performs the round, the second performs none).
C2_TwoCallsOneRound ==
    (IsCall(ev) /\ ~ev.force /\ ev.pair # None /\ ev.pair[1].gap < CACHE_SEC
       /\ ev.pair[1].round)
        => (ev.requests = 0)

\* C2, amended: a non-forced call made less than CACHE_SEC after the last
\* successful fetch issues no request, changes nothing of the object and
\* invokes no hook; a forced call always issues requests; and of two
\* non-forced calls within CACHE_SEC of each other at most one downloads, the
\* second issuing no request when the first downloaded.
C2_CacheWindow ==
    /\ (IsCall(ev) /\ ~ev.force /\ ev.age < CACHE_SEC) =>
          (ev.outcome = "cached" /\ ev.requests = 0 /\ ~ev.changed
             /\ ev.hooks = << >>)
    /\ (IsCall(ev) /\ ev.force) => ev.requests >= 1
    /\ (IsCall(ev) /\ ~ev.force /\ ev.pair # None
          /\ ev.pair[1].gap < CACHE_SEC)
          => /\ ~(ev.outcome = "ok" /\ ev.pair[1].ok)
             /\ ev.pair[1].ok => (ev.pair[1].round /\ ev.requests = 0)

\* a second non-forced call, later than and less than CACHE_SEC after a first
\* one that downloaded
C2_Witness ==
    /\ ev.kind = "refresh" /\ ~ev.force /\ ev.outcome = "cached"
    /\ ev.pair # None /\ ev.pair[1].ok /\ ev.pair[1].gap > 0

\* C3: a refresh whose round fails leaves the object as it was (parameter
\* values, compass fields, snapshot timestamp, last-fetch time) and invokes
\* no hook.
C3_FailedRefreshRetains ==
    (IsCall(ev) /\ ev.outcome = "failed") =>
        (~ev.changed /\ ev.hooks = << >>)

\* a round that fails after some parameters were fetched, over a snapshot
C3_Witness ==
    /\ ev.kind = "refresh" /\ ev.outcome = "failed" /\ ev.requests > 1
    /\ data # Missing /\ _db_hook # None

\* C4: every hook registered on the object, through set_refresh_hook or
\* db_hook, is invoked exactly once with the new snapshot by a refresh that
\* downloads, and not at all by a cache hit or a failed refresh.
C4_RegisteredHookOncePerDownload ==
    IsCall(ev) =>
        \A h \in ev.registered :
            /\ Invocations(h) = IF ev.outcome = "ok" THEN 1 ELSE 0
            /\ \A i \in DOMAIN ev.hooks : ev.hooks[i].arg = Snapshot

\* C5, as claimed: every firing of the POLL_SEC timer performs a round.
C5_TimerUnconditional == (ev.kind = "timer") => (ev.requests > 0)

\* C5, amended: a firing of the POLL_SEC timer is a refresh without force; it
\* performs a round exactly when the last successful fetch is at least
\* CACHE_SEC old.
C5_TimerRespectsCache ==
    (ev.kind = "timer") =>
        /\ ~ev.force
        /\ (ev.requests > 0) <=> (ev.age >= CACHE_SEC)

\* the timer fires less than CACHE_SEC after a consumer's successful refresh
C5_Witness ==
    /\ ev.kind = "timer" /\ ev.outcome = "cached"
    /\ ev.pair # None /\ ev.pair[1].ok /\ ev.pair[1].gap > 0

\* C16: after any sequence of refreshes, the constructor's failing one
\* included, reading a parameter field or the snapshot timestamp of the
\* Weather object returns a value or None and never raises.
C16_ReadsNeverRaise ==
    \A name \in {PARAM_IDS[i] : i \in 1 .. NParams} \cup {"time_utc"} :
        ~ReadAttr(Self, name).raised

-----------------------------------------------------------------------------
(* Claims about GPSTracker, under SpecGps *)

IsFix(e) == e.kind \in {"location", "fake_tick"}

Range(seq) == {seq[i] : i \in DOMAIN seq}

\* C6: after subscribe(cb) and then unsubscribe of its handle, no later fix
\* invokes cb, and the subscribers that remain are still invoked.
C6_UnsubscribedNotInvoked ==
    IsFix(gev) =>
        {gev.delivered[i].cb : i \in DOMAIN gev.delivered} = Range(live)

\* C7: once stop() has returned, no fix is stored and no subscriber is invoked
\* until start() is called again.
C7_NoFixAfterStop == IsFix(gev) => ~stopped

\* C8: last_fix() is None exactly when no location update was ever received.
C8_NoneIffNeverReceived == (last_fix = None) <=> ~received

\* C14: the speed the tracker holds, and the speed handed to every subscriber,
\* is never negative, whatever speed the platform delivers.
C14_SpeedNonNegative ==
    /\ _speed_mps >= 0
    /\ \A i \in DOMAIN gev.delivered : gev.delivered[i].spd >= 0

\* C17: on the desktop path at most one synthetic-fix timer is scheduled,
\* whatever start() and stop() calls were made, and one tick invokes each
\* subscription at most once.
C17_OneSyntheticTimer ==
    /\ fakeTimers <= 1
    /\ (gev.kind = "fake_tick") => (Len(gev.delivered) <= Len(_subscribers))

-----------------------------------------------------------------------------
(* Claim about the location callback racing with readers, under SpecRace *)

\* C15: a fix returned by last_fix, and a position returned by latlon, on the
\* UI thread while _on_location runs on another thread, is the fix of one
\* location update (or the initial one): its latitude, longitude and speed
\* are never of two different updates.
C15_ReaderSeesOneUpdate ==
    /\ (rres.kind = "last_fix" /\ rres.value # None) =>
          \E f \in hist :
              rres.value[1] = <<f.lat, f.lon, speed_kph(f.speed)>>
    /\ (rres.kind = "latlon") =>
          \E f \in hist : rres.value[1] = <<f.lat, f.lon>>

-----------------------------------------------------------------------------
(* Claims about the store, under SpecDb and SpecUi *)

IsLog(e) == e.op \in {"log_gps", "log_catch", "log_weather"}

Referenced(table) == {table[i].session : i \in DOMAIN table}

\* C11: log_gps, log_catch and log_weather with a session id that is not in
\* the store raise and leave the four tables as they were, and no row of a
\* log table references a session that does not exist.
C11_UnknownSessionRejected ==
    /\ (IsLog(dbev) /\ ~dbev.exists) => (dbev.raised /\ ~dbev.changed)
    /\ (IsLog(dbev) /\ dbev.exists) => (~dbev.raised /\ dbev.changed)
    /\ Referenced(GPSLog) \cup Referenced(Catch) \cup Referenced(WeatherLog)
          \subseteq SessionIds

\* a log call with an unknown session id was rejected while the store holds
\* a session and rows
C11_Witness ==
    /\ IsLog(dbev) /\ ~dbev.exists /\ dbev.raised
    /\ Session # << >> /\ Logged >= 2

Open == {i \in DOMAIN Session : Session[i].end_time = None}

\* C12: whatever HomeScreen.start_trip, TrackScreen.on_enter and on_leave
\* events occur, the store holds at most one session without end_time.
C12_AtMostOneOpenSession == Cardinality(Open) <= 1

\* the fixes of session sid in the order of their times (rows with equal
\* times in the order logged)
RECURSIVE InsertByTime(_, _)
InsertByTime(sorted, row) ==
    IF sorted = << >> THEN <<row>>
    ELSE IF row.timestamp.t < Head(sorted).timestamp.t
           THEN <<row>> \o sorted
           ELSE <<Head(sorted)>> \o InsertByTime(Tail(sorted), row)
RECURSIVE ByTime(_)
ByTime(rows) ==
    IF rows = << >> THEN << >>
    ELSE InsertByTime(ByTime(SubSeq(rows, 1, Len(rows) - 1)), rows[Len(rows)])

\* C13: the summary of an ended session is returned, with the catches logged
\* against it, the length (to 0.01 km) of the path through its fixes in
\* timestamp order, and the duration end_time - start_time, a value and not
\* None.
C13_SummaryOfEndedSession ==
    \A i \in DOMAIN Session :
        (Session[i].end_time # None) =>
            LET sid == Session[i].id
                summary == get_session_summary(sid)
            IN  /\ summary.raised = ""
                /\ summary.n_catches =
                      Cardinality({j \in DOMAIN Catch :
                                     Catch[j].session = sid})
                /\ summary.distance_km =
                      round(Distance(ByTime(Where(GPSLog, sid))), 10000)
                /\ summary.duration_h =
                      Some(Session[i].end_time[1].t - Session[i].start_time.t)

-----------------------------------------------------------------------------
(* Claims about deg_to_compass8, under SpecCompass *)

Labels == {Some(directions[i]) : i \in DOMAIN directions}

\* C9: for every bearing b in [0, 360), deg_to_compass8(b) is one of the eight
\* labels and equals deg_to_compass8(b + 360).
C9_LabelForEveryBearing ==
    (compass # Pending /\ deg < Turn) =>
        (compass \in Labels /\ compass = compass360)

\* C10, as claimed: the label at index round(bearing / 45) mod 8, NE for 45,
\* and no value for 0 and for 360.
C10_ZeroAndFullTurnNoValue ==
    (compass # Pending) =>
        /\ (deg = 45 * Scale) => (compass = Some("NE"))
        /\ (deg \in {0, Turn}) => (compass = None)
        /\ (deg \notin {0, Turn}) => (compass \in Labels)

\* the multiple of 45 degrees nearest to d, the even one of two equally near
Dist(d, m) == IF d >= 45 * Scale * m THEN d - 45 * Scale * m
              ELSE 45 * Scale * m - d
NearestMultiple(d) ==
    CHOOSE m \in 0 .. 8 * (MaxTurns + 1) :
        \A n \in 0 .. 8 * (MaxTurns + 1) :
            \/ n = m
            \/ Dist(d, m) < Dist(d, n)
            \/ Dist(d, m) = Dist(d, n) /\ m % 2 = 0

\* C10, amended: no value for the bearing 0; for every other bearing the
\* label of the nearest multiple of 45 degrees (the even multiple on a tie),
\* counted modulo 8 from N: NE for 45 and N for 360.
C10_NearestPointExceptZero ==
    (compass # Pending) =>
        /\ (deg = 0) => (compass = None)
        /\ (deg # 0) =>
              (compass = Some(directions[(NearestMultiple(deg) % 8) + 1]))
        /\ (deg = 45 * Scale) => (compass = Some("NE"))
        /\ (deg = Turn) => (compass = Some("N"))

C10_Witness == deg = Turn /\ compass = Some("N")

=============================================================================
